---- MODULE Spec2Model ----
(***************************************************************************)
(* Credential lifecycle and authenticated dispatch of slack-mcp            *)
(* (src/src/slack.py): the in-memory token pair, its reload from the       *)
(* environment, its persistence to the .env file, the token rotation and   *)
(* the _post/_get dispatch with its single retry.                          *)
(*                                                                         *)
(* The tools are coroutines of one asyncio event loop: code between two    *)
(* awaits runs atomically, and the awaits that suspend are the network     *)
(* round trips (and the closing of the HTTP client).  Each action below is *)
(* the code that runs between two such suspension points.                  *)
(***************************************************************************)
EXTENDS Integers, Sequences, FiniteSets, TLC

(***************************************************************************)
(* Bounds of the model.                                                    *)
(***************************************************************************)
\* Number of logical calls (tool invocations) that may be in flight.
NumCalls == 2
\* Number of rotations the platform grants (fresh pairs it can issue).
MaxRotations == 2
\* Longest .env file, in lines, the persist specification starts from.
MaxLines == 3
\* Number of persist calls the persist specification applies.
MaxPersists == 2

Calls == 1..NumCalls

VARIABLES
    _token_state,   \* the module-level dict: access_token, refresh_token
    environ,        \* os.environ: the four variables the module reads
    env_file,       \* ENV_FILE: whether it exists, and its text
    calls,          \* per logical call: the coroutine's position and locals
    platform,       \* the platform: its rotation policy and what it issued
    hist            \* history: the last persist and the last store operation

vars == <<_token_state, environ, env_file, calls, platform, hist>>

(***************************************************************************)
(* Strings.  TLC treats a string as a sequence of characters.              *)
(***************************************************************************)
\* str.startswith(prefix)
startswith(s, p) == Len(s) >= Len(p) /\ SubSeq(s, 1, Len(p)) = p

\* str.startswith(tuple of prefixes)
startswith_any(s, ps) == \E p \in ps : startswith(s, p)

\* The line boundaries of str.splitlines() that the files of the model use.
LineBreaks == {"\n", "\r", "\f"}

\* The character of s at position i.
char_at(s, i) == SubSeq(s, i, i)

\* str.splitlines(): s cut at its line boundaries, "\r\n" being one
\* boundary; a boundary that ends s opens no further line.
splitlines(s) ==
    LET n        == Len(s)
        \* positions where a line ends (the "\n" of a "\r\n" ends none)
        Ends     == {e \in 1..n :
                       /\ char_at(s, e) \in LineBreaks
                       /\ ~(char_at(s, e) = "\n" /\ e > 1
                            /\ char_at(s, e - 1) = "\r")}
        \* the first position after the boundary at e
        After(e) == IF char_at(s, e) = "\r" /\ e < n
                       /\ char_at(s, e + 1) = "\n"
                    THEN e + 2 ELSE e + 1
        EndOf(k) == CHOOSE e \in Ends : Cardinality({j \in Ends : j <= e}) = k
        StartOf(k) == IF k = 1 THEN 1 ELSE After(EndOf(k - 1))
        m        == Cardinality(Ends)
        closed   == [k \in 1..m |-> SubSeq(s, StartOf(k), EndOf(k) - 1)]
        rest     == IF m = 0 THEN 1 ELSE After(EndOf(m))
    IN  IF rest <= n THEN Append(closed, SubSeq(s, rest, n)) ELSE closed

RECURSIVE join(_, _)
\* sep.join(lines)
join(sep, lines) ==
    IF lines = <<>> THEN ""
    ELSE IF Len(lines) = 1 THEN lines[1]
    ELSE lines[1] \o sep \o join(sep, Tail(lines))

(***************************************************************************)
(* Credential store.                                                       *)
(***************************************************************************)
\* os.getenv(name, "")
getenv(env, name) == env[name]

\* Python's "a or b" on strings: a when it is non-empty, else b.
str_or(a, b) == IF a # "" THEN a ELSE b

\* A reload that consults SLACK_TOKEN and SLACK_BOT_TOKEN only.
_load_token_from_env_two_sources(env) ==
    [access_token  |-> str_or(getenv(env, "SLACK_TOKEN"),
                              getenv(env, "SLACK_BOT_TOKEN")),
     refresh_token |-> getenv(env, "SLACK_REFRESH_TOKEN")]

\* _load_token_from_env: the pair as re-read from the environment.
_load_token_from_env(env) ==
    [access_token  |-> str_or(getenv(env, "SLACK_TOKEN"),
                         str_or(getenv(env, "SLACK_BOT_TOKEN"),
                                getenv(env, "SLACK_USER_TOKEN"))),
     refresh_token |-> getenv(env, "SLACK_REFRESH_TOKEN")]

\* The empty pair.
NoPair == [access_token |-> "", refresh_token |-> ""]

\* The environment with none of the four variables set.
NoEnv == [SLACK_TOKEN |-> "", SLACK_BOT_TOKEN |-> "",
          SLACK_USER_TOKEN |-> "", SLACK_REFRESH_TOKEN |-> ""]

\* History of the store: no operation recorded yet.  A record holds the
\* operation, the pair before it, its argument, what it returned and
\* whether it raised or reloaded.
NoOp == [op |-> "none", before |-> NoPair, token |-> "", ret |-> "",
         flag |-> FALSE, raised |-> FALSE, reloaded |-> FALSE]

AccessKeys == {"SLACK_TOKEN=", "SLACK_BOT_TOKEN=", "SLACK_USER_TOKEN="}
RefreshKey == "SLACK_REFRESH_TOKEN="

\* A loop body that rewrites every access line instead of the first only.
env_line_step_no_collapse(st, line, access_token, refresh_token) ==
    IF startswith_any(line, {"SLACK_TOKEN=", "SLACK_BOT_TOKEN=",
                             "SLACK_USER_TOKEN="})
    THEN [st EXCEPT !.new_lines = Append(@, "SLACK_TOKEN=" \o access_token),
                    !.found_access = TRUE]
    ELSE IF startswith(line, "SLACK_REFRESH_TOKEN=")
    THEN [st EXCEPT !.new_lines = Append(@, "SLACK_REFRESH_TOKEN=" \o refresh_token),
                    !.found_refresh = TRUE]
    ELSE [st EXCEPT !.new_lines = Append(@, line)]

\* A loop body that keeps the first refresh line only, as it does for the
\* access lines.
env_line_step_collapse_refresh(st, line, access_token, refresh_token) ==
    IF startswith_any(line, AccessKeys)
    THEN IF ~st.found_access
         THEN [st EXCEPT !.new_lines = Append(@, "SLACK_TOKEN=" \o access_token),
                         !.found_access = TRUE]
         ELSE st
    ELSE IF startswith(line, RefreshKey)
    THEN IF ~st.found_refresh
         THEN [st EXCEPT !.new_lines = Append(@, RefreshKey \o refresh_token),
                         !.found_refresh = TRUE]
         ELSE st
    ELSE [st EXCEPT !.new_lines = Append(@, line)]

\* The body of the loop "for line in lines" of _save_tokens_to_env on one
\* line: st holds new_lines, found_access and found_refresh.
env_line_step(st, line, access_token, refresh_token) ==
    IF startswith_any(line, AccessKeys)
    THEN IF ~st.found_access
         THEN [st EXCEPT !.new_lines = Append(@, "SLACK_TOKEN=" \o access_token),
                         !.found_access = TRUE]
         ELSE st
    ELSE IF startswith(line, RefreshKey)
    THEN [st EXCEPT !.new_lines = Append(@, RefreshKey \o refresh_token),
                    !.found_refresh = TRUE]
    ELSE [st EXCEPT !.new_lines = Append(@, line)]

RECURSIVE env_loop(_, _, _, _)
env_loop(st, lines, access_token, refresh_token) ==
    IF lines = <<>> THEN st
    ELSE env_loop(env_line_step(st, Head(lines), access_token, refresh_token),
                  Tail(lines), access_token, refresh_token)

\* A rewrite that appends the refresh line whether or not one was found.
env_rewrite_append_always(content, access_token, refresh_token) ==
    LET lines == splitlines(content)
        st0   == [new_lines |-> <<>>, found_access |-> FALSE,
                  found_refresh |-> FALSE]
        st    == env_loop(st0, lines, access_token, refresh_token)
        l1    == IF ~st.found_access
                 THEN Append(st.new_lines, "SLACK_TOKEN=" \o access_token)
                 ELSE st.new_lines
        l2    == IF refresh_token # ""
                 THEN Append(l1, RefreshKey \o refresh_token)
                 ELSE l1
    IN  join("\n", l2) \o "\n"

\* The new text of an existing .env file (lines 108 to 131).
env_rewrite(content, access_token, refresh_token) ==
    LET lines == splitlines(content)
        st0   == [new_lines |-> <<>>, found_access |-> FALSE,
                  found_refresh |-> FALSE]
        st    == env_loop(st0, lines, access_token, refresh_token)
        l1    == IF ~st.found_access
                 THEN Append(st.new_lines, "SLACK_TOKEN=" \o access_token)
                 ELSE st.new_lines
        l2    == IF ~st.found_refresh /\ refresh_token # ""
                 THEN Append(l1, RefreshKey \o refresh_token)
                 ELSE l1
    IN  join("\n", l2) \o "\n"

\* A persist that writes the file and forgets the in-memory access token.
saved_state_stale(access_token, refresh_token) ==
    [access_token |-> _token_state.access_token,
     refresh_token |-> refresh_token]

\* The pair _save_tokens_to_env leaves in memory (lines 104 and 105: two
\* assignments with no await between them).
saved_state(access_token, refresh_token) ==
    [access_token |-> access_token, refresh_token |-> refresh_token]

\* A persist that writes the file whether or not it exists.
env_file_written_always(file, access_token, refresh_token) ==
    [exists |-> TRUE,
     text |-> env_rewrite(file.text, access_token, refresh_token)]

\* ENV_FILE after _save_tokens_to_env (lines 107 to 131): rewritten when it
\* exists, and otherwise left absent.
env_file_written(file, access_token, refresh_token) ==
    IF file.exists
    THEN [file EXCEPT !.text = env_rewrite(@, access_token, refresh_token)]
    ELSE file

\* _save_tokens_to_env(access_token, refresh_token)
_save_tokens_to_env(access_token, refresh_token) ==
    /\ _token_state' = saved_state(access_token, refresh_token)
    /\ env_file' = env_file_written(env_file, access_token, refresh_token)
    /\ hist' = [hist EXCEPT
                  !.prev_file = env_file,
                  !.persists = @ + 1,
                  !.before = _token_state,
                  !.prev_args = hist.args,
                  !.args = [access_token |-> access_token,
                            refresh_token |-> refresh_token]]

(***************************************************************************)
(* Platform responses.                                                     *)
(***************************************************************************)
\* No payload (a local not yet assigned).
NoData == [ok |-> FALSE, error |-> "", seq |-> 0]

\* What the endpoint can answer to one request: a JSON body (ok true, the
\* expiry signal, another application error) or no answer at all (the
\* round trip fails or times out and client.post raises).
EndpointOutcomes ==
    {[kind |-> "json", ok |-> TRUE,  error |-> ""],
     [kind |-> "json", ok |-> FALSE, error |-> "token_expired"],
     [kind |-> "json", ok |-> FALSE, error |-> "channel_not_found"],
     [kind |-> "transport", ok |-> FALSE, error |-> ""]}

\* Credentials the platform issues at its n-th rotation.
IssuedAccess(n)  == "xoxe.xoxp-" \o ToString(n)
IssuedRefresh(n) == "xoxe-1-" \o ToString(n)

\* Whether the platform honours the refresh credential rt: a single-use
\* platform honours only the one it issued last.
Honoured(rt) ==
    /\ rt # ""
    /\ platform.issued < MaxRotations
    /\ platform.single_use => rt = platform.refresh

\* What tooling.tokens.rotate can answer to a request carrying rt.  Fields
\* absent from the body read as data.get's defaults.
RotationOutcomes(rt) ==
    {[kind |-> "json", ok |-> FALSE, token |-> "", refresh_token |-> "",
      error |-> "invalid_refresh_token"],
     [kind |-> "json", ok |-> FALSE, token |-> "", refresh_token |-> "",
      error |-> ""],
     [kind |-> "json", ok |-> TRUE, token |-> "", refresh_token |-> "",
      error |-> ""],
     [kind |-> "not_json", ok |-> FALSE, token |-> "", refresh_token |-> "",
      error |-> ""],
     [kind |-> "transport", ok |-> FALSE, token |-> "", refresh_token |-> "",
      error |-> ""]}
    \cup
    (IF Honoured(rt)
     THEN {[kind |-> "json", ok |-> TRUE,
            token |-> IssuedAccess(platform.issued + 1),
            refresh_token |-> r, error |-> ""] :
             r \in {IssuedRefresh(platform.issued + 1), ""}}
     ELSE {})

\* The platform after answering out.
platform_after(out) ==
    IF out.kind = "json" /\ out.ok /\ out.token # ""
    THEN [platform EXCEPT
            !.issued = @ + 1,
            !.refresh = out.refresh_token,
            !.pairs = @ \cup {[access_token |-> out.token,
                               refresh_token |-> out.refresh_token]}]
    ELSE platform

(***************************************************************************)
(* Dispatcher: _post and _get (the same code up to the HTTP verb) and      *)
(* _refresh_token, cut at their awaits.                                    *)
(***************************************************************************)
InitCall ==
    [pc |-> "idle",              \* idle, awaiting, rotating, refreshed, done, raised
     retry_on_auth_fail |-> TRUE,
     token |-> "",               \* _post's local: the bearer of this attempt
     data |-> NoData,            \* _post's local: the decoded response
     refresh_token |-> "",       \* _refresh_token's local
     sent |-> <<>>,              \* history: the bearer of each request sent
     resps |-> <<>>,             \* history: each payload received
     rot |-> 0,                  \* history: rotation requests sent
     refreshed |-> "none",       \* history: _refresh_token's outcome
     new_access |-> "",          \* history: the token of its rotation answer
     result |-> NoData,          \* the payload returned to the caller
     error |-> "",               \* the exception raised to the caller
     alone |-> FALSE,            \* history: no other call ran since it began
     overlapped |-> {}]          \* history: rotations in flight at its expiry

InFlight(c) == calls[c].pc \in {"awaiting", "rotating", "refreshed"}

\* The function a call goes through: _post and _get are the same code up to
\* the HTTP verb, and every action below is the code of both.
Verb(c) == IF c % 2 = 1 THEN "POST" ELSE "GET"

\* raise: the exception propagates to the caller (nothing catches it).
raised(call, exc) == [call EXCEPT !.pc = "raised", !.error = exc]

\* return [TextContent(..., json.dumps(data))] (lines 205 and 228).
returned(call, data) == [call EXCEPT !.pc = "done", !.result = data]

\* A _get_token that reloads from the environment on every call.
get_token_state_always_reload(ts, env) == _load_token_from_env(env)

\* _get_token's effect on the pair: a reload when the access token is empty.
get_token_state(ts, env) ==
    IF ts.access_token = "" THEN _load_token_from_env(env) ELSE ts

\* The token _get_token holds after its reload (line 169); it raises
\* when token_not_found of it and returns it otherwise.
_get_token(ts, env) == get_token_state(ts, env).access_token

\* A _get_token without its final check.
token_not_found_unchecked(token) == FALSE

\* Lines 170 to 173: "if not token: raise ValueError(...)".
token_not_found(token) == token = ""

\* A retry that may itself retry.
retry_flag_kept == TRUE

\* The flag _post passes to its retry (lines 203 and 226).
retry_flag == FALSE

\* An expiry check that takes every failed response for an expiry.
token_expired_any_error(data, retry_on_auth_fail) ==
    /\ ~data.ok
    /\ retry_on_auth_fail

\* An expiry check that does not look at retry_on_auth_fail.
token_expired_ignoring_retry(data, retry_on_auth_fail) ==
    /\ ~data.ok
    /\ data.error = "token_expired"

\* Lines 201 and 224.
token_expired(data, retry_on_auth_fail) ==
    /\ ~data.ok
    /\ data.error = "token_expired"
    /\ retry_on_auth_fail

\* A _refresh_token without its guard.
no_refresh_token_unchecked(rt) == FALSE

\* Line 138: "if not refresh_token".
no_refresh_token(rt) == rt = ""

\* Lines 151 to 154: the rotation answer carries a usable new token.
rotation_ok(data) == data.ok /\ data.token # ""

\* A _post that sends its request before it looks at the token.
post_begin_send_first(call, retry) ==
    LET token == _get_token(_token_state, environ)
        sent  == [call EXCEPT !.retry_on_auth_fail = retry,
                              !.token = token,
                              !.sent = Append(@, token)]
    IN  IF token_not_found(token)
        THEN raised(sent, "ValueError")
        ELSE [sent EXCEPT !.pc = "awaiting"]

\* _post(endpoint, params, retry_on_auth_fail) up to its await (lines 186
\* to 197): reads the token and sends the request with it as the bearer.
post_begin(call, retry) ==
    LET token == _get_token(_token_state, environ)
    IN  IF token_not_found(token)
        THEN raised([call EXCEPT !.retry_on_auth_fail = retry], "ValueError")
        ELSE [call EXCEPT !.pc = "awaiting",
                          !.retry_on_auth_fail = retry,
                          !.token = token,
                          !.sent = Append(@, token)]

\* _refresh_token up to its await (lines 136 to 148): returns False when
\* there is no refresh token (and _post then returns data), else sends the
\* rotation request.
refresh_begin(call) ==
    LET rt   == _token_state.refresh_token
        seen == [call EXCEPT !.overlapped =
                    {d \in Calls : calls[d].pc = "rotating"}]
    IN  IF no_refresh_token(rt)
        THEN returned([seen EXCEPT !.refreshed = "false"], call.data)
        ELSE [seen EXCEPT !.pc = "rotating",
                          !.refresh_token = rt,
                          !.rot = @ + 1,
                          !.refreshed = "pending"]

\* _post after its await (lines 198 to 205), on the decoded body data.
post_response(call, data) ==
    LET got == [call EXCEPT !.data = data, !.resps = Append(@, data)]
    IN  IF token_expired(data, call.retry_on_auth_fail)
        THEN refresh_begin(got)
        ELSE returned(got, data)

\* A _post that takes a failed round trip for an expired token.
post_transport_failure_as_expiry(call) == refresh_begin(call)

\* The await of client.post (lines 193 to 197) raises: _post catches
\* nothing, so the httpx error leaves the call.
post_transport_failure(call) == raised(call, "TransportError")

\* A tool calls _post or _get: a logical call starts.
Call(c) ==
    /\ calls[c].pc = "idle"
    /\ LET quiet == \A d \in Calls \ {c} : ~InFlight(d)
       IN  calls' = [d \in Calls |->
               IF d = c
               THEN post_begin([calls[c] EXCEPT !.alone = quiet], TRUE)
               ELSE [calls[d] EXCEPT !.alone = FALSE]]
    /\ _token_state' = get_token_state(_token_state, environ)
    /\ UNCHANGED <<environ, env_file, platform, hist>>

\* The endpoint's answer arrives (or the round trip fails).
Respond(c) ==
    /\ calls[c].pc = "awaiting"
    /\ \E out \in EndpointOutcomes :
        calls' = [calls EXCEPT ![c] =
            IF out.kind = "transport"
            THEN post_transport_failure(@)
            ELSE post_response(@, [ok |-> out.ok, error |-> out.error,
                                   seq |-> Len(calls[c].sent)])]
    /\ UNCHANGED <<_token_state, environ, env_file, platform, hist>>

\* The rotation's answer arrives (lines 149 to 161).
RotateRespond(c) ==
    /\ calls[c].pc = "rotating"
    /\ \E out \in RotationOutcomes(calls[c].refresh_token) :
        /\ platform' = platform_after(out)
        /\ IF out.kind # "json"
           THEN /\ calls' = [calls EXCEPT ![c] =
                      raised([@ EXCEPT !.refreshed = "raised"],
                             IF out.kind = "transport"
                             THEN "TransportError" ELSE "JSONDecodeError")]
                /\ UNCHANGED <<_token_state, env_file, hist>>
           ELSE IF rotation_ok(out)
           THEN /\ _save_tokens_to_env(out.token, out.refresh_token)
                /\ calls' = [calls EXCEPT ![c].pc = "refreshed",
                                          ![c].refreshed = "true",
                                          ![c].new_access = out.token]
           ELSE /\ calls' = [calls EXCEPT ![c] =
                      returned([@ EXCEPT !.refreshed = "false"], @.data)]
                /\ UNCHANGED <<_token_state, env_file, hist>>
    /\ UNCHANGED environ

\* _refresh_token returned True: _post calls itself (lines 203 and 226).
Retry(c) ==
    /\ calls[c].pc = "refreshed"
    /\ calls' = [calls EXCEPT ![c] = post_begin(@, retry_flag)]
    /\ _token_state' = get_token_state(_token_state, environ)
    /\ UNCHANGED <<environ, env_file, platform, hist>>

(***************************************************************************)
(* Classification of a token (lines 76 to 89 and 177 to 181).              *)
(***************************************************************************)
\* A classification that looks for the plain prefixes anywhere in the token.
_get_token_type_by_substring(token) ==
    LET contains(p) ==
            \E i \in 1..(Len(token) + 1) :
                /\ i + Len(p) - 1 <= Len(token)
                /\ SubSeq(token, i, i + Len(p) - 1) = p
    IN
    IF contains("xoxb-") THEN "bot"
    ELSE IF contains("xoxp-") THEN "user"
    ELSE IF startswith(token, "xoxe.xoxp-") THEN "user_rotatable"
    ELSE IF startswith(token, "xoxe.xoxb-") THEN "bot_rotatable"
    ELSE IF startswith(token, "xapp-") THEN "app_level"
    ELSE "unknown"

\* _get_token_type(token): the tests in the order of the source.
_get_token_type(token) ==
    IF startswith(token, "xoxb-") THEN "bot"
    ELSE IF startswith(token, "xoxp-") THEN "user"
    ELSE IF startswith(token, "xoxe.xoxp-") THEN "user_rotatable"
    ELSE IF startswith(token, "xoxe.xoxb-") THEN "bot_rotatable"
    ELSE IF startswith(token, "xapp-") THEN "app_level"
    ELSE "unknown"

\* Line 181 of _is_user_token, on the token _get_token returned.
_is_user_token(token) == _get_token_type(token) \in {"user", "user_rotatable"}

(***************************************************************************)
(* The dispatch specification: concurrent logical calls.                   *)
(***************************************************************************)
\* The environments a process starts in.
EnvChoices ==
    {NoEnv,
     [NoEnv EXCEPT !.SLACK_TOKEN = "xoxe.xoxp-0",
                   !.SLACK_REFRESH_TOKEN = "xoxe-1-0"],
     [NoEnv EXCEPT !.SLACK_BOT_TOKEN = "xoxb-0"],
     [NoEnv EXCEPT !.SLACK_REFRESH_TOKEN = "xoxe-1-0"]}

NoFile == [exists |-> FALSE, text |-> ""]

\* The .env file a process of the dispatch specification starts with.
FileChoices ==
    {[exists |-> TRUE,
      text |-> "FOO=1\nSLACK_BOT_TOKEN=xoxb-0\nSLACK_TOKEN=xoxe.xoxp-0\n"]}

Init ==
    /\ environ \in EnvChoices
    /\ _token_state = _load_token_from_env(environ)
    /\ env_file \in FileChoices
    /\ calls = [c \in Calls |-> InitCall]
    /\ \E su \in BOOLEAN :
         platform = [single_use |-> su,
                     refresh |-> environ.SLACK_REFRESH_TOKEN,
                     issued |-> 0,
                     pairs |-> {_load_token_from_env(environ)}]
    /\ hist = [prev_file |-> env_file, persists |-> 0, before |-> NoPair,
               prev_args |-> NoPair, args |-> NoPair, last |-> NoOp]

Next ==
    \E c \in Calls :
        \/ Call(c)
        \/ Respond(c)
        \/ RotateRespond(c)
        \/ Retry(c)

Spec == Init /\ [][Next]_vars

\* The tool that made call c has returned or raised; a later logical call
\* of the same process takes its place.
NextCall(c) ==
    /\ calls[c].pc \in {"done", "raised"}
    /\ calls' = [calls EXCEPT ![c] = InitCall]
    /\ UNCHANGED <<_token_state, environ, env_file, platform, hist>>

NextProcess ==
    \E c \in Calls :
        \/ Call(c)
        \/ Respond(c)
        \/ RotateRespond(c)
        \/ Retry(c)
        \/ NextCall(c)

\* The process over its lifetime: at most NumCalls logical calls at a time,
\* one after another without end.
SpecProcess == Init /\ [][NextProcess]_vars

(***************************************************************************)
(* The persist specification: _save_tokens_to_env applied to every small   *)
(* .env file.                                                              *)
(***************************************************************************)
\* Lines a .env file is made of: the canonical key, its legacy aliases, the
\* refresh key, unrelated keys (one sharing a prefix with a key) and a
\* blank line.
LinePool ==
    {"SLACK_TOKEN=old", "SLACK_BOT_TOKEN=xoxb-0", "SLACK_USER_TOKEN=xoxp-0",
     "SLACK_REFRESH_TOKEN=r0", "FOO=1", "SLACK_TOKEN_TTL=9", ""}

\* The line endings of a file.
LineEnds == {"\n", "\r\n"}

RECURSIVE file_text(_, _)
\* The text of a file whose lines each end with eol.
file_text(lines, eol) ==
    IF lines = <<>> THEN ""
    ELSE Head(lines) \o eol \o file_text(Tail(lines), eol)

PersistFiles ==
    {NoFile} \cup
    {[exists |-> TRUE, text |-> file_text(ls, eol)] :
        ls \in UNION {[1..n -> LinePool] : n \in 0..MaxLines},
        eol \in LineEnds}

\* The pairs a rotation hands to _save_tokens_to_env: its access token is
\* never empty (line 154), its refresh token may be.
PersistPairs ==
    {[access_token |-> "xoxe.xoxp-1", refresh_token |-> "xoxe-1-1"],
     [access_token |-> "xoxe.xoxp-1", refresh_token |-> ""],
     [access_token |-> "xoxe.xoxp-2", refresh_token |-> "xoxe-1-2"]}

InitPersist ==
    /\ environ = [NoEnv EXCEPT !.SLACK_TOKEN = "xoxe.xoxp-0",
                               !.SLACK_REFRESH_TOKEN = "xoxe-1-0"]
    /\ _token_state = _load_token_from_env(environ)
    /\ env_file \in PersistFiles
    /\ calls = [c \in Calls |-> InitCall]
    /\ platform = [single_use |-> TRUE,
                   refresh |-> environ.SLACK_REFRESH_TOKEN,
                   issued |-> 0,
                   pairs |-> {_load_token_from_env(environ)}]
    /\ hist = [prev_file |-> env_file, persists |-> 0, before |-> NoPair,
               prev_args |-> NoPair, args |-> NoPair, last |-> NoOp]

\* One call of _save_tokens_to_env.
Persist ==
    /\ hist.persists < MaxPersists
    /\ \E p \in PersistPairs :
         _save_tokens_to_env(p.access_token, p.refresh_token)
    /\ UNCHANGED <<environ, calls, platform>>

NextPersist == Persist

SpecPersist == InitPersist /\ [][NextPersist]_vars

(***************************************************************************)
(* The store specification: the operations of the credential store on     *)
(* their own, in a process whose environment the host may change between  *)
(* two operations (the reload of _get_token reads os.environ anew).       *)
(***************************************************************************)
\* Values of the four variables: one token of each kind, and none.
StoreEnvs ==
    {[SLACK_TOKEN |-> a, SLACK_BOT_TOKEN |-> b,
      SLACK_USER_TOKEN |-> u, SLACK_REFRESH_TOKEN |-> r] :
        a \in {"", "xoxe.xoxp-0", "xoxe.xoxb-0", "xapp-0", "token"},
        b \in {"", "xoxb-0"},
        u \in {"", "xoxp-0"},
        r \in {"", "xoxe-1-0"}}

\* Arguments of _get_token_type: every prefix alone and followed by a
\* suffix, prefixes cut short, in upper case, after other text, and nested.
TokenPool ==
    {"", "token", "xoxb-", "xoxb-1", "xoxp-", "xoxp-1", "xoxe.xoxp-",
     "xoxe.xoxp-1", "xoxe.xoxb-", "xoxe.xoxb-1", "xapp-", "xapp-1",
     "xoxe-1-1", "xoxp", "xoxe.xoxp", "xoxe.", "XOXP-1", " xoxp-1",
     "xoxa-2", "xoxe.xoxp-xoxp-1", "xoxp-xoxe.xoxp-1", "xapp-xoxb-1"}

InitStore ==
    /\ environ \in StoreEnvs
    /\ _token_state = _load_token_from_env(environ)
    /\ env_file = NoFile
    /\ calls = [c \in Calls |-> InitCall]
    /\ platform = [single_use |-> FALSE,
                   refresh |-> environ.SLACK_REFRESH_TOKEN,
                   issued |-> 0,
                   pairs |-> {_load_token_from_env(environ)}]
    /\ hist = [prev_file |-> env_file, persists |-> 0, before |-> NoPair,
               prev_args |-> NoPair, args |-> NoPair, last |-> NoOp]

\* The host sets or unsets one of the four variables.
SetEnv ==
    /\ \E e \in StoreEnvs :
        /\ Cardinality({n \in DOMAIN e : e[n] # environ[n]}) = 1
        /\ environ' = e
    /\ hist' = [hist EXCEPT !.last = NoOp]
    /\ UNCHANGED <<_token_state, env_file, calls, platform>>

\* _get_token() is called.
GetToken ==
    /\ LET token == _get_token(_token_state, environ)
       IN  hist' = [hist EXCEPT !.last =
               [NoOp EXCEPT !.op = "_get_token",
                            !.before = _token_state,
                            !.reloaded = (_token_state.access_token = ""),
                            !.raised = token_not_found(token),
                            !.ret = IF token_not_found(token)
                                    THEN "" ELSE token]]
    /\ _token_state' = get_token_state(_token_state, environ)
    /\ UNCHANGED <<environ, env_file, calls, platform>>

\* _get_token_type(token) is called.
GetTokenType ==
    /\ \E token \in TokenPool :
        hist' = [hist EXCEPT !.last =
            [NoOp EXCEPT !.op = "_get_token_type",
                         !.token = token,
                         !.ret = _get_token_type(token)]]
    /\ UNCHANGED <<_token_state, environ, env_file, calls, platform>>

\* _is_user_token() is called.
IsUserToken ==
    /\ LET token == _get_token(_token_state, environ)
       IN  hist' = [hist EXCEPT !.last =
               [NoOp EXCEPT !.op = "_is_user_token",
                            !.before = _token_state,
                            !.reloaded = (_token_state.access_token = ""),
                            !.raised = token_not_found(token),
                            !.token = token,
                            !.flag = IF token_not_found(token)
                                     THEN FALSE
                                     ELSE _is_user_token(token)]]
    /\ _token_state' = get_token_state(_token_state, environ)
    /\ UNCHANGED <<environ, env_file, calls, platform>>

NextStore ==
    \/ SetEnv
    \/ GetToken
    \/ GetTokenType
    \/ IsUserToken

SpecStore == InitStore /\ [][NextStore]_vars

(***************************************************************************)
(* The fair dispatch specification: the calls with their scheduling.      *)
(***************************************************************************)
\* The calls of the fair specification.
LiveCalls == 1

\* A process starts in any environment of StoreEnvs, with or without the
\* .env file.
InitLive ==
    /\ environ \in StoreEnvs
    /\ _token_state = _load_token_from_env(environ)
    /\ env_file \in FileChoices \cup {NoFile}
    /\ calls = [c \in Calls |-> InitCall]
    /\ \E su \in BOOLEAN :
         platform = [single_use |-> su,
                     refresh |-> environ.SLACK_REFRESH_TOKEN,
                     issued |-> 0,
                     pairs |-> {_load_token_from_env(environ)}]
    /\ hist = [prev_file |-> env_file, persists |-> 0, before |-> NoPair,
               prev_args |-> NoPair, args |-> NoPair, last |-> NoOp]

\* The steps of the calls 1..LiveCalls; the other calls are never made.
NextLive ==
    \E c \in 1..LiveCalls :
        \/ Call(c)
        \/ Respond(c)
        \/ RotateRespond(c)
        \/ Retry(c)

\* The dispatch specification with its scheduling: every request sent is
\* eventually answered or fails (the client gives up after its timeout),
\* and the event loop resumes a coroutine whose await has completed.
\* Nothing obliges a tool to be called.
SpecLive ==
    /\ InitLive
    /\ [][NextLive]_vars
    /\ \A c \in 1..LiveCalls :
        /\ WF_vars(Respond(c))
        /\ WF_vars(RotateRespond(c))
        /\ WF_vars(Retry(c))

(***************************************************************************)
(* Properties of the dispatcher.                                           *)
(***************************************************************************)
\* The first non-empty of the three access sources of an environment.
FirstSource(env) ==
    IF env.SLACK_TOKEN # "" THEN env.SLACK_TOKEN
    ELSE IF env.SLACK_BOT_TOKEN # "" THEN env.SLACK_BOT_TOKEN
    ELSE env.SLACK_USER_TOKEN

\* The expiry signal of the platform.
IsExpirySignal(d) == ~d.ok /\ d.error = "token_expired"

\* C1: a logical call sends at most two requests to its endpoint, whatever
\* the platform answers, and its second request runs with
\* retry_on_auth_fail false.
C1_AtMostTwoRequests ==
    \A c \in Calls :
        /\ Len(calls[c].sent) <= 2
        /\ Len(calls[c].sent) = 2 => ~calls[c].retry_on_auth_fail

\* A call answered token_expired on both attempts has ended, after two
\* requests.
C1_Witness ==
    \E c \in Calls :
        /\ calls[c].pc = "done"
        /\ Len(calls[c].sent) = 2
        /\ IsExpirySignal(calls[c].resps[1])
        /\ IsExpirySignal(calls[c].resps[2])

\* C2: two calls in flight that both got token_expired for the same access
\* token and both invoked _refresh_token send one rotation request between
\* them.
C2_OneRotationPerEpisode ==
    \A c1, c2 \in Calls :
        ( /\ c1 # c2
          /\ InFlight(c1) /\ InFlight(c2)
          /\ calls[c1].refreshed # "none" /\ calls[c2].refreshed # "none"
          /\ calls[c1].sent[1] = calls[c2].sent[1] )
        => calls[c1].rot + calls[c2].rot = 1

\* C3: for a call running alone whose first attempt got token_expired and
\* whose rotation answered ok with a new token N: the retry carries N as its
\* bearer, the call returns the retry's payload, and the store holds N when
\* it returns.
C3_RetryWithRotatedToken ==
    \A c \in Calls :
        (calls[c].alone /\ calls[c].refreshed = "true") =>
            /\ calls[c].new_access # ""
            /\ IsExpirySignal(calls[c].resps[1])
            /\ Len(calls[c].sent) >= 2 =>
                   calls[c].sent[2] = calls[c].new_access
            /\ calls[c].pc = "done" =>
                   /\ Len(calls[c].sent) = 2
                   /\ Len(calls[c].resps) = 2
                   /\ calls[c].result = calls[c].resps[2]
                   /\ calls[c].result.seq = 2
                   /\ _token_state.access_token = calls[c].new_access

\* A call that ran alone has rotated, retried and returned the retry's ok.
C3_Witness ==
    \E c \in Calls :
        /\ calls[c].alone
        /\ calls[c].refreshed = "true"
        /\ calls[c].pc = "done"
        /\ calls[c].result.ok
        /\ calls[c].sent[2] # calls[c].sent[1]

\* C4: when the first attempt signals expiry and the rotation does not
\* succeed (no refresh token, rejected, malformed answer, empty new token),
\* the call does not raise, sends no second request and returns the payload
\* of the expiry response.
C4_FailedRotationReturnsOriginal ==
    \A c \in Calls :
        ( /\ calls[c].refreshed \in {"false", "raised"}
          /\ calls[c].error # "TransportError" )
        => /\ calls[c].pc = "done"
           /\ calls[c].error = ""
           /\ Len(calls[c].sent) = 1
           /\ calls[c].result = calls[c].resps[1]

\* C5: a response triggers _refresh_token exactly when it has ok false, the
\* error token_expired and retry is still allowed; on any other response the
\* call sends no rotation request and no second request, returns that
\* response's payload and leaves the in-memory pair and the .env file as
\* they were.
C5_RotationOnlyOnExpiry ==
    [][\A c \in Calls :
        ( /\ calls[c].pc = "awaiting"
          /\ Len(calls'[c].resps) = Len(calls[c].resps) + 1 )
        => LET d      == calls'[c].resps[Len(calls'[c].resps)]
               expiry == IsExpirySignal(d) /\ calls[c].retry_on_auth_fail
           IN  /\ (calls'[c].refreshed # calls[c].refreshed) <=> expiry
               /\ ~expiry =>
                    /\ calls'[c].rot = calls[c].rot
                    /\ calls'[c].sent = calls[c].sent
                    /\ calls'[c].pc = "done"
                    /\ calls'[c].result = d
                    /\ _token_state' = _token_state
                    /\ env_file' = env_file
                    /\ platform' = platform]_vars

\* A call answered with another error code has returned it after one
\* request and without invoking _refresh_token.
C5_Witness ==
    \E c \in Calls :
        /\ calls[c].pc = "done"
        /\ Len(calls[c].sent) = 1
        /\ calls[c].result.error = "channel_not_found"
        /\ calls[c].refreshed = "none"
        /\ calls[c].rot = 0

\* C6: with an empty refresh token in the store, _refresh_token returns
\* False without any network request and leaves the in-memory pair and the
\* .env file as they were.
C6_NoRefreshTokenNoRequest ==
    [][\A c \in Calls :
        ( /\ calls[c].refreshed = "none"
          /\ calls'[c].refreshed # "none"
          /\ _token_state.refresh_token = "" )
        => /\ calls'[c].refreshed = "false"
           /\ calls'[c].rot = calls[c].rot
           /\ calls'[c].sent = calls[c].sent
           /\ calls'[c].pc # "rotating"
           /\ _token_state' = _token_state
           /\ env_file' = env_file
           /\ platform' = platform]_vars

\* _refresh_token has returned False to a call without a rotation request.
C6_Witness ==
    \E c \in Calls :
        /\ calls[c].refreshed = "false"
        /\ calls[c].rot = 0
        /\ _token_state.refresh_token = ""
        /\ IsExpirySignal(calls[c].resps[1])

\* C7: on every rotation outcome other than ok with a non-empty new token
\* (transport failure, malformed answer, ok false, ok with an empty token),
\* _refresh_token returns False and the in-memory pair and the .env file
\* are as they were.
C7_FailedRotationReturnsFalse ==
    [][\A c \in Calls :
        ( /\ calls[c].pc = "rotating"
          /\ calls'[c].pc # "rotating"
          /\ calls'[c].refreshed # "true" )
        => /\ calls'[c].refreshed = "false"
           /\ _token_state' = _token_state
           /\ env_file' = env_file]_vars

\* C8: a refresh or persist excludes every other refresh or persist, and no
\* reader sees a pair mixing the tokens of two rotation answers (or of one
\* and the pair before it).
C8_RefreshExclusiveNoTornPair ==
    /\ \A c1, c2 \in Calls :
          c1 # c2 => ~(calls[c1].pc = "rotating" /\ calls[c2].pc = "rotating")
    /\ _token_state \in platform.pairs

\* C9: a call that detects expiry while another call's rotation is in
\* flight sends no rotation request of its own; so on a single-use
\* platform, when that rotation succeeds, the call retries with a rotated
\* token instead of returning the expiry payload.
C9_ConcurrentCallerReusesRotation ==
    \A c \in Calls :
        calls[c].overlapped # {} =>
            /\ calls[c].rot = 0
            /\ ( /\ platform.single_use
                 /\ \E d \in calls[c].overlapped : calls[d].refreshed = "true"
                 /\ calls[c].pc = "done" )
               => /\ Len(calls[c].sent) = 2
                  /\ calls[c].sent[2] # calls[c].sent[1]

(***************************************************************************)
(* Properties of the persisted file.                                       *)
(***************************************************************************)
\* A line holding the access token under the canonical key or an alias.
IsAccessLine(line) ==
    \/ startswith(line, "SLACK_TOKEN=")
    \/ startswith(line, "SLACK_BOT_TOKEN=")
    \/ startswith(line, "SLACK_USER_TOKEN=")

\* A line that holds neither token.
IsOtherLine(line) ==
    ~IsAccessLine(line) /\ ~startswith(line, "SLACK_REFRESH_TOKEN=")

\* C10: after a persist on an existing .env file, the file holds every line
\* that starts with none of SLACK_TOKEN=, SLACK_BOT_TOKEN=,
\* SLACK_USER_TOKEN=, SLACK_REFRESH_TOKEN=, unchanged and in the order it
\* had, and exactly one access line, SLACK_TOKEN=<the new access token>.
C10_PersistKeepsOtherLines ==
    (hist.persists > 0 /\ hist.prev_file.exists) =>
        LET old == splitlines(hist.prev_file.text)
            new == splitlines(env_file.text)
        IN  /\ env_file.exists
            /\ SelectSeq(new, IsOtherLine) = SelectSeq(old, IsOtherLine)
            /\ SelectSeq(new, IsAccessLine) =
                   <<"SLACK_TOKEN=" \o _token_state.access_token>>

\* A persist has rewritten a file that held several access lines (an alias
\* among them) and lines of other keys.
C10_Witness ==
    /\ hist.persists > 0
    /\ hist.prev_file.exists
    /\ LET old == splitlines(hist.prev_file.text)
       IN  /\ Len(SelectSeq(old, IsAccessLine)) >= 2
           /\ \E i \in 1..Len(old) : startswith(old[i], "SLACK_BOT_TOKEN=")
           /\ Len(SelectSeq(old, IsOtherLine)) >= 1
    /\ env_file # hist.prev_file

\* C11: when the .env file does not exist, a persist sets the in-memory
\* pair to the new values and does not create the file.
C11_PersistWithoutFile ==
    (hist.persists > 0 /\ ~hist.prev_file.exists) =>
        /\ _token_state = hist.args
        /\ ~env_file.exists
        /\ env_file = hist.prev_file

\* A persist has run without a file and changed the in-memory pair.
C11_Witness ==
    /\ hist.persists > 0
    /\ ~hist.prev_file.exists
    /\ hist.args.access_token = "xoxe.xoxp-2"
    /\ _token_state.access_token = "xoxe.xoxp-2"

\* A line holding the refresh token.
IsRefreshLine(line) == startswith(line, "SLACK_REFRESH_TOKEN=")

\* A line that is not an access line.
IsKeptLine(line) == ~IsAccessLine(line)

\* C23: a persist on an existing .env file rewrites every line that starts
\* with SLACK_REFRESH_TOKEN= to the new refresh token where it stands
\* (several such lines are each rewritten), and appends a
\* SLACK_REFRESH_TOKEN line, as the last line, only when there was none and
\* the new refresh token is non-empty; afterwards the SLACK_TOKEN line holds
\* the in-memory access token and every refresh line the in-memory refresh
\* token.
C23_RefreshLinesRewritten ==
    (hist.persists > 0 /\ hist.prev_file.exists) =>
        LET old  == SelectSeq(splitlines(hist.prev_file.text), IsKeptLine)
            new  == splitlines(env_file.text)
            kept == SelectSeq(new, IsKeptLine)
            line == "SLACK_REFRESH_TOKEN=" \o hist.args.refresh_token
            rew  == [i \in 1..Len(old) |->
                        IF IsRefreshLine(old[i]) THEN line ELSE old[i]]
            had  == \E i \in 1..Len(old) : IsRefreshLine(old[i])
        IN  /\ IF had \/ hist.args.refresh_token = ""
               THEN kept = rew
               ELSE kept = Append(rew, line) /\ new[Len(new)] = line
            /\ \E i \in 1..Len(new) : startswith(new[i], "SLACK_TOKEN=")
            /\ \A i \in 1..Len(new) :
                /\ startswith(new[i], "SLACK_TOKEN=") =>
                     new[i] = "SLACK_TOKEN=" \o _token_state.access_token
                /\ IsRefreshLine(new[i]) =>
                     new[i] = "SLACK_REFRESH_TOKEN=" \o _token_state.refresh_token

\* A persist has rewritten a file that held two refresh lines around a line
\* of another key.
C23_Witness ==
    /\ hist.persists > 0
    /\ hist.prev_file.exists
    /\ splitlines(hist.prev_file.text) =
           <<"SLACK_REFRESH_TOKEN=r0", "FOO=1", "SLACK_REFRESH_TOKEN=r0">>
    /\ splitlines(env_file.text) =
           <<"SLACK_REFRESH_TOKEN=xoxe-1-1", "FOO=1",
             "SLACK_REFRESH_TOKEN=xoxe-1-1", "SLACK_TOKEN=xoxe.xoxp-1">>

\* C24: a second persist with the same pair as the one before it leaves the
\* in-memory pair and the file as the first one left them.
C24_PersistIdempotent ==
    (hist.persists >= 2 /\ hist.args = hist.prev_args) =>
        /\ _token_state = hist.before
        /\ env_file = hist.prev_file

\* The same pair was persisted twice on an existing file, the first persist
\* having appended both token lines.
C24_Witness ==
    /\ hist.persists = 2
    /\ hist.args = hist.prev_args
    /\ hist.args.refresh_token # ""
    /\ splitlines(env_file.text) =
           <<"FOO=1", "SLACK_TOKEN=" \o hist.args.access_token,
             "SLACK_REFRESH_TOKEN=" \o hist.args.refresh_token>>

C15_NoRefreshWithoutAccess ==
    _token_state.refresh_token # "" => _token_state.access_token # ""

\* C16: once the access token is non-empty no step sets it to empty, and a
\* step that changes either field of the in-memory pair is the arrival of a
\* successful rotation answer, whose pair it stores.
C16_OnlyRotationChangesPair ==
    [][_token_state.access_token # "" =>
        /\ _token_state'.access_token # ""
        /\ _token_state' # _token_state =>
            \E c \in Calls :
                /\ calls[c].pc = "rotating"
                /\ calls'[c].pc = "refreshed"
                /\ platform'.issued = platform.issued + 1
                /\ _token_state' \in platform'.pairs \ platform.pairs]_vars

\* A rotation replaced the pair and the call went on to finish with it.
C16_Witness ==
    /\ _token_state.access_token = IssuedAccess(1)
    /\ _token_state \in platform.pairs
    /\ \E c \in Calls :
        /\ calls[c].pc = "done"
        /\ calls[c].refreshed = "true"
        /\ Len(calls[c].sent) = 2

\* C17: a logical call sends at most one rotation request: a rotation
\* that failed is not attempted again and its call ends without a retry,
\* and a retry answered with the expiry signal ends the call with that
\* answer and no further rotation.
C17_AtMostOneRotationPerCall ==
    \A c \in Calls :
        LET call == calls[c]
        IN  /\ call.rot <= 1
            /\ call.refreshed \in {"false", "raised"} =>
                /\ call.pc \in {"done", "raised"}
                /\ Len(call.sent) = 1
            /\ (Len(call.resps) = 2 /\ IsExpirySignal(call.resps[2])) =>
                /\ call.pc = "done"
                /\ call.result = call.resps[2]
                /\ call.rot = 1

\* The retry of a call was itself answered with the expiry signal.
C17_Witness ==
    \E c \in Calls :
        /\ Len(calls[c].resps) = 2
        /\ IsExpirySignal(calls[c].resps[2])
        /\ calls[c].rot = 1
        /\ _token_state.refresh_token # ""

\* C18: an attempt whose round trip ends without an answer (it fails or
\* times out) sends no rotation request and no retry, leaves the pair as it
\* was, and ends the call with the transport error.
C18_TransportFailureSurfaced ==
    [][\A c \in Calls :
        (/\ calls[c].pc = "awaiting"
         /\ calls'[c].pc # "awaiting"
         /\ calls'[c].resps = calls[c].resps) =>
            /\ calls'[c].pc = "raised"
            /\ calls'[c].error = "TransportError"
            /\ calls'[c].rot = calls[c].rot
            /\ calls'[c].sent = calls[c].sent
            /\ calls'[c].refreshed = calls[c].refreshed
            /\ _token_state' = _token_state
            /\ env_file' = env_file
            /\ platform' = platform]_vars

\* The retry of a call failed in transport after a successful rotation.
C18_Witness ==
    \E c \in Calls :
        /\ calls[c].pc = "raised"
        /\ calls[c].error = "TransportError"
        /\ calls[c].refreshed = "true"
        /\ Len(calls[c].sent) = 2
        /\ Len(calls[c].resps) = 1

\* The states of a logical call: Attempting (first or second pass),
\* Retrying (the rotation and the step to the second pass), and the
\* terminal Succeeded (a payload was returned) and Failed (an error left
\* the call).
Phase(call) ==
    CASE call.pc = "idle" -> "NotStarted"
      [] call.pc = "awaiting" /\ call.retry_on_auth_fail -> "Attempting"
      [] call.pc = "awaiting" /\ ~call.retry_on_auth_fail -> "Attempting2"
      [] call.pc \in {"rotating", "refreshed"} -> "Retrying"
      [] call.pc = "done" -> "Succeeded"
      [] call.pc = "raised" -> "Failed"

\* The transitions of the state machine.
PhaseSteps ==
    {<<"NotStarted", "Attempting">>, <<"NotStarted", "Failed">>,
     <<"Attempting", "Succeeded">>, <<"Attempting", "Failed">>,
     <<"Attempting", "Retrying">>,
     <<"Retrying", "Attempting2">>, <<"Retrying", "Succeeded">>,
     <<"Retrying", "Failed">>,
     <<"Attempting2", "Succeeded">>, <<"Attempting2", "Failed">>}

\* C21: every logical call follows Attempting -> Succeeded | Failed |
\* Retrying -> Attempting (second pass) -> Succeeded | Failed, the second
\* pass never goes to Retrying, and, every request sent being eventually
\* answered or failing, every call that started eventually reaches a
\* terminal state.
C21_CallsFollowStateMachineAndEnd ==
    /\ [][\A c \in Calls :
            \/ Phase(calls'[c]) = Phase(calls[c])
            \/ <<Phase(calls[c]), Phase(calls'[c])>> \in PhaseSteps]_vars
    /\ \A c \in Calls :
            (calls[c].pc # "idle") ~> (calls[c].pc \in {"done", "raised"})

\* A call went through Retrying and its second pass and ended.
C21_Witness ==
    \E c \in Calls :
        /\ Phase(calls[c]) = "Succeeded"
        /\ ~calls[c].retry_on_auth_fail
        /\ calls[c].rot = 1
        /\ calls[c].result.ok

\* A rotation of this process has come back with a new access token and an
\* empty refresh token.
EmptyRefreshRotated ==
    \E p \in platform.pairs :
        /\ p.refresh_token = ""
        /\ \E n \in 1..platform.issued : p.access_token = IssuedAccess(n)

\* C22: a successful rotation whose answer holds an empty refresh token
\* leaves the refresh token of the store empty, and every expiry signal that
\* arrives afterwards ends its call with the expiry payload, no rotation
\* request being sent.
C22_NoRotationAfterEmptyRefresh ==
    [][\A c \in Calls :
        /\ (/\ calls[c].pc = "rotating"
            /\ calls'[c].pc = "refreshed"
            /\ \E p \in platform'.pairs \ platform.pairs : p.refresh_token = "")
               => _token_state'.refresh_token = ""
        /\ (/\ EmptyRefreshRotated
            /\ calls[c].pc = "awaiting"
            /\ Len(calls'[c].resps) = Len(calls[c].resps) + 1
            /\ IsExpirySignal(calls'[c].data))
               => /\ calls'[c].pc = "done"
                  /\ calls'[c].result = calls'[c].data
                  /\ calls'[c].rot = calls[c].rot]_vars
(***************************************************************************)
(* Properties of the credential store.                                     *)
(***************************************************************************)
\* C12 as amended: _get_token never returns an empty string; it returns the
\* in-memory access token when that is non-empty, otherwise the reloaded
\* value when that is non-empty, and raises exactly when the value is still
\* empty after the reload, that is when the access token is unset and the
\* SLACK_TOKEN, SLACK_BOT_TOKEN and SLACK_USER_TOKEN sources are all empty.
C12_GetTokenThreeSources ==
    hist.last.op = "_get_token" =>
        LET last == hist.last
            unset == last.before.access_token = ""
        IN  /\ ~last.raised => last.ret # ""
            /\ ~unset => ~last.raised /\ last.ret = last.before.access_token
            /\ (unset /\ FirstSource(environ) # "") =>
                   ~last.raised /\ last.ret = FirstSource(environ)
            /\ last.raised <=>
                   /\ unset
                   /\ environ.SLACK_TOKEN = ""
                   /\ environ.SLACK_BOT_TOKEN = ""
                   /\ environ.SLACK_USER_TOKEN = ""

\* _get_token reloaded an unset access token from SLACK_USER_TOKEN alone.
C12_Witness ==
    /\ hist.last.op = "_get_token"
    /\ hist.last.before.access_token = ""
    /\ environ.SLACK_TOKEN = ""
    /\ environ.SLACK_BOT_TOKEN = ""
    /\ hist.last.ret = "xoxp-0"

\* C12 as stated: _get_token raises whenever the access token is unset and
\* the SLACK_TOKEN and SLACK_BOT_TOKEN sources are empty.
C12_RaisesWhenTwoSourcesEmpty ==
    (/\ hist.last.op = "_get_token"
     /\ hist.last.before.access_token = ""
     /\ environ.SLACK_TOKEN = ""
     /\ environ.SLACK_BOT_TOKEN = "") => hist.last.raised

\* C14: a reload assigns the first non-empty source value and, when all
\* the environment sources are empty, leaves the in-memory pair (access and
\* refresh token) as it was.
C14_ReloadKeepsLastKnown ==
    (hist.last.op \in {"_get_token", "_is_user_token"} /\ hist.last.reloaded) =>
        /\ FirstSource(environ) # "" =>
               _token_state.access_token = FirstSource(environ)
        /\ environ = NoEnv => _token_state = hist.last.before

\* The five prefixes and the kind each one stands for.
PrefixKinds ==
    {<<"xoxb-", "bot">>, <<"xoxp-", "user">>,
     <<"xoxe.xoxp-", "user_rotatable">>, <<"xoxe.xoxb-", "bot_rotatable">>,
     <<"xapp-", "app_level">>}

\* The prefixes a token starts with.
Matching(token) == {pk \in PrefixKinds : startswith(token, pk[1])}

\* C19: _get_token_type returns the kind of the one prefix the token starts
\* with, and "unknown" when it starts with none; no token starts with two
\* of the prefixes, so the order of the tests does not matter; a token that
\* starts with "xoxe.xoxp-" is "user_rotatable" and never "user".
C19_ClassifyByUniquePrefix ==
    hist.last.op = "_get_token_type" =>
        LET token == hist.last.token
        IN  /\ Cardinality(Matching(token)) <= 1
            /\ Matching(token) = {} => hist.last.ret = "unknown"
            /\ \A pk \in Matching(token) : hist.last.ret = pk[2]
            /\ (Len(token) >= 10 /\ SubSeq(token, 1, 10) = "xoxe.xoxp-") =>
                   hist.last.ret = "user_rotatable"

\* A rotatable user token that also holds the plain user prefix was
\* classified.
C19_Witness ==
    /\ hist.last.op = "_get_token_type"
    /\ hist.last.token = "xoxe.xoxp-xoxp-1"
    /\ hist.last.ret = "user_rotatable"

\* C20: _is_user_token returns true exactly when the current access token
\* is of kind user or user_rotatable, and returns false for every other
\* token, the empty one included.
C20_IsUserTokenTotal ==
    hist.last.op = "_is_user_token" =>
        /\ ~hist.last.raised
        /\ hist.last.flag <=>
               \/ startswith(_token_state.access_token, "xoxp-")
               \/ startswith(_token_state.access_token, "xoxe.xoxp-")

====